---- MODULE Spec2Model ----
(***************************************************************************)
(* State-machine model of scrapeFlightData.py: startup (validate_args,     *)
(* check_url, storage initialisation), the schedule loop of main, and one  *)
(* fetch cycle (fetch_data with its urllib3 Retry policy, write_raw_data,  *)
(* write_to_db).  The HTTP endpoint, the file system and the operator's    *)
(* Ctrl+C are the environment.  Time is counted in whole seconds.          *)
(***************************************************************************)
EXTENDS Integers, Sequences, FiniteSets, TLC

\* ------------------------------------------------------------------ bounds
MaxInterval  == 2    \* largest --scrape-interval tried
MaxTimeout   == 1    \* largest --scrape-timeout tried
MaxRetries   == 1    \* largest --scrape-max-retries tried
MaxTime      == 4    \* the clock stops advancing here
MaxSignals   == 1    \* SIGINTs the operator sends
MaxRedirects == 1    \* redirect hops followed by one session.get

VARIABLES
    args,           \* the parsed command line (immutable after Init)
    pc,             \* position of the single thread
    now,            \* wall clock, seconds
    next_run,       \* schedule's Job.next_run
    running,        \* activations of fetch_and_store_data not yet returned
    total,          \* Retry.total left for the request in flight
    attempts,       \* HTTP requests sent by the current fetch_data call
    redirects,      \* redirect hops followed by the current session.get
    last,           \* how the latest HTTP attempt of the call ended
    transientOnly,  \* every attempt of the call so far failed transiently
    data,           \* value returned by fetch_data
    rawFiles,       \* files under <flight_dir>/raw
    records,        \* rows held by the sqlite store
    dbWrites,       \* invocations of write_to_db
    dbOpen,         \* the sqlite connection is open
    exitCode,       \* process exit status, -1 while alive
    signals,        \* SIGINTs delivered so far
    fs,             \* what exists on disk: the flight directory, the store file
    created,        \* what this process created on disk
    initCalls,      \* invocations of initialize_db
    urlCheck,       \* result of check_url: "none", "ok" or "failed"
    closes,         \* invocations of db.close()
    last_run,       \* schedule's Job.last_run, -1 for None
    cycle_start,    \* when the latest job run began, -1 before the first
    session,        \* the requests.Session of the call: "none", "open", "closed"
    backoff         \* seconds Retry.sleep slept after the latest failed attempt

vars == <<args, pc, now, next_run, running, total, attempts, redirects, last,
          transientOnly, data, rawFiles, records, dbWrites, dbOpen, exitCode,
          signals, fs, created, initCalls, urlCheck, closes, last_run,
          cycle_start, session, backoff>>

fetchLocals == <<total, attempts, redirects, last, transientOnly, data, session, backoff>>
storage     == <<rawFiles, records, dbWrites, dbOpen, closes>>
startup     == <<fs, created, initCalls, urlCheck>>
jobTimes    == <<last_run, cycle_start>>

\* ------------------------------------------------------------ environment
\* What one HTTP attempt can end with.
Response(st, ra, loc, b) ==
    [kind |-> "response", status |-> st, retry_after |-> ra, location |-> loc, body |-> b]
TransportError ==
    [kind |-> "error", status |-> 0, retry_after |-> FALSE, location |-> FALSE, body |-> ""]
Interrupted ==
    [kind |-> "KeyboardInterrupt", status |-> 0, retry_after |-> FALSE, location |-> FALSE, body |-> ""]
NoOutcome ==
    [kind |-> "none", status |-> 0, retry_after |-> FALSE, location |-> FALSE, body |-> ""]

Bodies == {"{\"alt\": 1}", "{}", "<html>"}

GetOutcomes ==
    {TransportError}
    \cup {Response(200, FALSE, FALSE, b) : b \in Bodies}
    \cup {Response(st, FALSE, FALSE, "") : st \in {302, 404, 413, 429, 503}}
    \cup {Response(302, FALSE, TRUE, ""), Response(413, TRUE, FALSE, "")}

HeadOutcomes ==
    {TransportError, Response(200, FALSE, FALSE, ""), Response(404, FALSE, FALSE, "")}

\* Python values fetch_data can return.
None        == [kind |-> "None", len |-> 0]
Dict(n)     == [kind |-> "dict", len |-> n]
Partial     == [kind |-> "partial", len |-> 0]
OldRecord   == [kind |-> "dict", len |-> 9]

\* ------------------------------------------------------------- fetch_data
status_forcelist        == {429, 500, 502, 503, 504}
RETRY_AFTER_STATUS_CODES == {413, 429, 503}
REDIRECT_STATI          == {301, 302, 303, 307, 308}

is_retry_any_error_status(left, st, has_retry_after) == st >= 400
\* Retry.is_retry for an allowed method (GET).
is_retry(left, st, has_retry_after) ==
    \/ st \in status_forcelist
    \/ (left # 0 /\ has_retry_after /\ st \in RETRY_AFTER_STATUS_CODES)

is_exhausted_off_by_one(left) == left <= 0
\* Retry.is_exhausted, on the counter after Retry.increment.
is_exhausted(left) == left < 0

\* Response.is_redirect
is_redirect(o) == o.location /\ o.status \in REDIRECT_STATI

\* The attempt failed the way the Retry policy of fetch_data names transient.
IsTransient(o) ==
    \/ o.kind = "error"
    \/ (o.kind = "response" /\ o.status \in status_forcelist)

ParsesAsJson_never(b) == FALSE
\* response.json()
ParsesAsJson(b) == b \in {"{\"alt\": 1}", "{}"}
json(b) == IF b = "{}" THEN Dict(0) ELSE Dict(1)

\* session.close() on the success path of fetch_data (line 197)
session_after_success == "closed"

Truthy_not_None(d) == d.kind # "None"
Truthy_always(d) == TRUE
\* Python truthiness of the value tested by `if data:`
Truthy(d) == d.kind # "None" /\ d.len > 0

\* ---------------------------------------------------------- validate_args
validate_args_ok_off_by_one(a) ==
    /\ ~(a.scrape_interval < 0)
    /\ ~(a.scrape_timeout < 0)
    /\ ~(a.scrape_max_retries < 0)

validate_args_ok(a) ==
    /\ ~(a.scrape_interval < 1)
    /\ ~(a.scrape_timeout < 1)
    /\ ~(a.scrape_max_retries < 1)

\* The rebuild check of validate_args: os.listdir of the flight directory
\* (FileNotFoundError when it is absent, ValueError when it is empty).
rebuild_ok(a, f) == ~(a.rebuild_db /\ f.flight_dir # "nonempty")

ArgsSet ==
    [scrape_interval    : 0..MaxInterval,
     scrape_timeout     : 0..MaxTimeout,
     scrape_max_retries : 0..MaxRetries,
     store_raw          : BOOLEAN,
     data_format        : {"json", "csv"},
     rebuild_db         : BOOLEAN]

\* The disk before the process starts: the store file lives in the flight
\* directory.
FsStates ==
    {[flight_dir |-> "absent",   db_file |-> FALSE],
     [flight_dir |-> "empty",    db_file |-> FALSE],
     [flight_dir |-> "nonempty", db_file |-> FALSE],
     [flight_dir |-> "nonempty", db_file |-> TRUE]}

\* ------------------------------------------------------------------- Init
Init ==
    /\ args \in ArgsSet
    /\ pc = "validate_args"
    /\ now = 0
    /\ next_run = 0
    /\ running = 0
    /\ total = 0
    /\ attempts = 0
    /\ redirects = 0
    /\ last = NoOutcome
    /\ transientOnly = TRUE
    /\ data = None
    /\ rawFiles = {}
    /\ fs \in FsStates
    /\ records = IF fs.db_file THEN <<OldRecord>> ELSE <<>>
    /\ dbWrites = 0
    /\ dbOpen = FALSE
    /\ exitCode = -1
    /\ signals = 0
    /\ created = {}
    /\ initCalls = 0
    /\ urlCheck = "none"
    /\ closes = 0
    /\ last_run = -1
    /\ cycle_start = -1
    /\ session = "none"
    /\ backoff = 0

\* ---------------------------------------------------------------- startup
\* An exception nobody catches: traceback, exit status 1.
Uncaught(where) ==
    /\ pc' = where
    /\ exitCode' = 1
    /\ running' = 0

ValidateArgs ==
    /\ pc = "validate_args"
    /\ IF validate_args_ok(args) /\ rebuild_ok(args, fs)
         THEN pc' = "check_url" /\ UNCHANGED <<exitCode, running>>
         ELSE Uncaught("exit_startup_error")
    /\ UNCHANGED <<args, now, next_run, fetchLocals, storage, signals, startup, jobTimes>>

check_url_passes_any_response(o) == o.kind = "response"
\* check_url returns without raising: no exception and status_code == 200.
check_url_passes(o) == o.kind = "response" /\ o.status = 200

CheckUrl ==
    /\ pc = "check_url"
    /\ \E o \in HeadOutcomes :
         /\ urlCheck' = IF o.kind = "response" /\ o.status = 200 THEN "ok" ELSE "failed"
         /\ IF check_url_passes(o)
              THEN pc' = "init_storage" /\ UNCHANGED <<exitCode, running>>
              ELSE Uncaught("exit_startup_error")
    /\ UNCHANGED <<args, now, next_run, fetchLocals, storage, signals, fs, created,
                   initCalls, jobTimes>>

create_needed_or_rebuild(exists, rebuild) == ~exists \/ rebuild
\* create_db: the `create` flag that decides whether initialize_db runs.
create_needed(exists, rebuild) == ~exists

schedule_next_run_fixed_rate(t, prev, interval) == prev + interval
schedule_next_run_immediately(t, prev, interval) == t
\* Job._schedule_next_run at time t: next_run = now + period.
schedule_next_run(t, prev, interval) == t + interval

\* create_flight_dir, create_db and schedule.every(interval).seconds.do(...)
InitStorage ==
    /\ pc = "init_storage"
    /\ fs' = [flight_dir |-> "nonempty", db_file |-> TRUE]
    /\ created' = created
                    \cup (IF fs.flight_dir = "absent" THEN {"flight_dir"} ELSE {})
                    \cup (IF fs.db_file THEN {} ELSE {"db_file"})
    /\ initCalls' = IF create_needed(fs.db_file, args.rebuild_db)
                      THEN initCalls + 1 ELSE initCalls
    /\ dbOpen' = TRUE
    /\ next_run' = schedule_next_run(now, next_run, args.scrape_interval)
    /\ pc' = "run_pending"
    /\ UNCHANGED <<args, now, running, fetchLocals, rawFiles, records, dbWrites,
                   closes, exitCode, signals, urlCheck, jobTimes>>

\* ------------------------------------------------------------- main loop
should_run == now >= next_run

RunPendingThreaded ==
    /\ pc = "run_pending"
    /\ IF should_run
         THEN /\ running' = running + 1
              /\ next_run' = now + args.scrape_interval
         ELSE UNCHANGED <<running, next_run>>
    /\ pc' = "sleep"
    /\ UNCHANGED <<args, now, fetchLocals, storage, exitCode, signals, startup, jobTimes>>

\* schedule.run_pending(): runs the job in the calling thread when it is due;
\* the call enters fetch_and_store_data and fetch_data up to session.get.
RunPending ==
    /\ pc = "run_pending"
    /\ IF should_run
         THEN /\ running' = running + 1
              /\ cycle_start' = now
              /\ total' = args.scrape_max_retries
              /\ attempts' = 0
              /\ redirects' = 0
              /\ last' = NoOutcome
              /\ transientOnly' = TRUE
              /\ data' = None
              /\ session' = "open"
              /\ backoff' = 0
              /\ pc' = "get"
         ELSE /\ pc' = "sleep"
              /\ UNCHANGED <<running, fetchLocals, cycle_start>>
    /\ UNCHANGED <<args, now, next_run, storage, exitCode, signals, startup, last_run>>

\* time.sleep(1)
Sleep ==
    /\ pc = "sleep"
    /\ now < MaxTime
    /\ now' = now + 1
    /\ pc' = "run_pending"
    /\ UNCHANGED <<args, next_run, running, fetchLocals, storage, exitCode, signals,
                   startup, jobTimes>>

\* Job.run after job_func returned: last_run, _schedule_next_run; the frames
\* of the cycle are gone.
JobDone ==
    /\ pc = "job_done"
    /\ last_run' = now
    /\ next_run' = schedule_next_run(now, next_run, args.scrape_interval)
    /\ running' = running - 1
    /\ total' = 0
    /\ attempts' = 0
    /\ redirects' = 0
    /\ last' = NoOutcome
    /\ transientOnly' = TRUE
    /\ data' = None
    /\ session' = "none"
    /\ backoff' = 0
    /\ pc' = "sleep"
    /\ UNCHANGED <<args, now, storage, exitCode, signals, startup, cycle_start>>

\* ------------------------------------------------------------ fetch cycle
\* fetch_data returns d to fetch_and_store_data, which branches on `if data:`
\* and on store_raw.
FetchReturns(d) ==
    /\ data' = d
    /\ pc' = IF Truthy(d)
               THEN (IF args.store_raw THEN "write_raw_data" ELSE "write_to_db")
               ELSE "job_done"
    /\ UNCHANGED <<exitCode, running>>

\* Retry(...) of fetch_data sets no backoff_factor: urllib3's default.
backoff_factor == 0

\* Retry.get_backoff_time after `errors` consecutive failed attempts.
get_backoff_time(errors) ==
    IF errors <= 1 THEN 0 ELSE backoff_factor * 2^(errors - 1)

\* Retry.sleep(response): a Retry-After header (here "Retry-After: 1") is
\* honoured, otherwise the backoff time is slept.
retry_sleep(o, errors) ==
    IF o.kind = "response" /\ o.retry_after THEN 1 ELSE get_backoff_time(errors)

\* One HTTP request of session.get completes with outcome o after d seconds.
HttpAttempt ==
    /\ pc = "get"
    /\ \E o \in GetOutcomes, d \in 0..args.scrape_timeout :
        LET retried == o.kind = "error" \/ is_retry(total, o.status, o.retry_after)
            again   == retried /\ ~is_exhausted(total - 1)
            slept   == IF again
                         THEN retry_sleep(o, args.scrape_max_retries - (total - 1))
                         ELSE 0
        IN
        /\ now + d + slept <= MaxTime
        /\ now' = now + d + slept
        /\ backoff' = slept
        /\ attempts' = attempts + 1
        /\ last' = o
        /\ transientOnly' = (transientOnly /\ IsTransient(o))
        /\ IF retried
             THEN \* Retry.increment
                  /\ total' = total - 1
                  /\ redirects' = redirects
                  /\ session' = session
                  /\ IF is_exhausted(total - 1)
                       THEN FetchReturns(None)      \* MaxRetryError, except:
                       ELSE /\ pc' = "get"
                            /\ UNCHANGED <<data, exitCode, running>>
             ELSE IF is_redirect(o)
               THEN \* Session.resolve_redirects
                    /\ session' = session
                    /\ IF redirects >= MaxRedirects
                         THEN /\ FetchReturns(None)    \* TooManyRedirects, except:
                              /\ UNCHANGED <<total, redirects>>
                         ELSE /\ redirects' = redirects + 1
                              /\ total' = args.scrape_max_retries
                              /\ pc' = "get"
                              /\ UNCHANGED <<data, exitCode, running>>
               ELSE /\ UNCHANGED <<total, redirects>>
                    /\ IF o.status # 200
                         THEN FetchReturns(None) /\ session' = session
                         ELSE IF ParsesAsJson(o.body)
                                THEN /\ FetchReturns(json(o.body))
                                     /\ session' = session_after_success
                                ELSE /\ Uncaught("exit_uncaught")
                                     /\ UNCHANGED <<data, session>>
    /\ UNCHANGED <<args, next_run, storage, signals, startup, jobTimes>>

Put(files, name, content) ==
    {f \in files : f.name # name} \cup {[name |-> name, content |-> content]}

\* write_raw_data(flight_dir, data, data_format)
WriteRawData ==
    /\ pc = "write_raw_data"
    /\ IF args.data_format = "json"
         THEN \E r \in {"ok", "open_fails", "dump_fails"} :
                /\ rawFiles' = CASE r = "ok"         -> Put(rawFiles, now, data)
                                 [] r = "open_fails" -> rawFiles
                                 [] r = "dump_fails" -> Put(rawFiles, now, Partial)
                /\ IF r = "ok"
                     THEN pc' = "write_to_db" /\ UNCHANGED <<exitCode, running>>
                     ELSE Uncaught("exit_uncaught")
         ELSE /\ rawFiles' = rawFiles
              /\ pc' = "write_to_db"
              /\ UNCHANGED <<exitCode, running>>
    /\ UNCHANGED <<args, now, next_run, fetchLocals, records, dbWrites, dbOpen,
                   closes, signals, startup, jobTimes>>

\* write_to_db(db, data): logs "Database not yet implemented"
WriteToDb ==
    /\ pc = "write_to_db"
    /\ dbWrites' = dbWrites + 1
    /\ records' = records
    /\ pc' = "job_done"
    /\ UNCHANGED <<args, now, next_run, running, fetchLocals, rawFiles, dbOpen,
                   closes, exitCode, signals, startup, jobTimes>>

\* ---------------------------------------------------------------- Ctrl+C
LoopPcs == {"run_pending", "sleep", "get", "write_raw_data", "write_to_db", "job_done"}

\* KeyboardInterrupt raised in the main thread at its current position.
Interrupt ==
    /\ pc \in LoopPcs
    /\ signals < MaxSignals
    /\ signals' = signals + 1
    /\ IF pc = "get"
         THEN \* caught by the bare except of fetch_data
              /\ last' = Interrupted
              /\ FetchReturns(None)
              /\ UNCHANGED <<total, attempts, redirects, transientOnly, session,
                             backoff, storage>>
         ELSE \* except KeyboardInterrupt of main: db.close(); sys.exit(0)
              /\ pc' = "exit_sigint"
              /\ dbOpen' = FALSE
              /\ closes' = closes + 1
              /\ exitCode' = 0
              /\ running' = 0
              /\ rawFiles' \in IF pc = "write_raw_data" /\ args.data_format = "json"
                                 THEN {rawFiles, Put(rawFiles, now, Partial)}
                                 ELSE {rawFiles}
              /\ UNCHANGED <<fetchLocals, records, dbWrites>>
    /\ UNCHANGED <<args, now, next_run, startup, jobTimes>>

Next ==
    \/ ValidateArgs
    \/ CheckUrl
    \/ InitStorage
    \/ RunPending
    \/ Sleep
    \/ JobDone
    \/ HttpAttempt
    \/ WriteRawData
    \/ WriteToDb
    \/ Interrupt

Spec == Init /\ [][Next]_vars

\* ------------------------------------------------------------ properties
\* fetch_data has returned to fetch_and_store_data, whose frame is still live.
Returned == pc \in {"write_raw_data", "write_to_db", "job_done"}

\* The fetch produced a parsed payload / ended in one of the failures the
\* Retry policy and the status check of fetch_data turn into None.
FetchOk(o)     == o.kind = "response" /\ o.status = 200 /\ ParsesAsJson(o.body)
FetchFailed(o) == o.kind = "error" \/ (o.kind = "response" /\ o.status # 200)

\* C1: a fetch_data call all of whose attempts failed transiently (status in
\* the forcelist, or a transport error) has made exactly max_retries + 1
\* HTTP attempts when it returns, and it returns None.
C1_TransientExhaustion ==
    (Returned /\ transientOnly /\ IsTransient(last)) =>
        (attempts = args.scrape_max_retries + 1 /\ data = None)

C1_Witness ==
    /\ pc = "job_done"
    /\ transientOnly
    /\ IsTransient(last)
    /\ args.scrape_max_retries = MaxRetries
    /\ attempts = MaxRetries + 1
    /\ data = None

\* C2 as stated: every response whose status is neither 2xx nor in the
\* retryable set ends the call with None and without a further attempt, after
\* exactly 1 attempt when it answers the first request.
C2_Original ==
    [][(/\ pc = "get"
        /\ attempts' = attempts + 1
        /\ last'.kind = "response"
        /\ last'.status \notin 200..299
        /\ last'.status \notin status_forcelist)
       => (/\ pc' = "job_done"
           /\ data' = None
           /\ (attempts = 0 => attempts' = 1))]_vars

\* C2 amended: the same for every such response that is neither a redirect
\* carrying a Location header nor a 413 carrying a Retry-After header.
C2_TerminalStatusNoRetry ==
    [][(/\ pc = "get"
        /\ attempts' = attempts + 1
        /\ last'.kind = "response"
        /\ last'.status \notin 200..299
        /\ last'.status \notin status_forcelist
        /\ ~(last'.location /\ last'.status \in REDIRECT_STATI)
        /\ ~(last'.retry_after /\ last'.status = 413))
       => (/\ pc' = "job_done"
           /\ data' = None
           /\ (attempts = 0 => attempts' = 1))]_vars

C2_Witness ==
    /\ pc = "job_done"
    /\ last.kind = "response"
    /\ last.status = 404
    /\ attempts = 1
    /\ data = None

\* C3: a KeyboardInterrupt that arrives at a step of a running cycle (the
\* request, the raw write, the store write) does not take the process out of
\* the scheduling loop from that step: the cycle's remaining steps run first.
C3_CycleNotAborted ==
    [][(pc \in {"get", "write_raw_data", "write_to_db"}) => (pc' # "exit_sigint")]_vars

\* C4: every SIGINT delivered while the scheduler is running or ticking stops
\* the process: store handle closed, exit status 0.
C4_SignalNeverLost ==
    [][signals' > signals =>
         (pc' = "exit_sigint" /\ ~dbOpen' /\ exitCode' = 0)]_vars

\* C5: no error raised inside a fetch cycle terminates the process.
C5_NoCycleErrorTerminates == pc # "exit_uncaught"

\* C6: once the fetch of a cycle has failed (retries exhausted, transport
\* error, non-retryable status) the rest of the cycle writes no snapshot file
\* and makes no store write, and unless a signal arrives the cycle returns to
\* the loop with the job rescheduled one interval ahead and the process alive.
C6_FailedFetchNoWrites ==
    [][(FetchFailed(last) /\ pc # "get") =>
         (/\ rawFiles' = rawFiles
          /\ dbWrites' = dbWrites
          /\ records' = records
          /\ (signals' = signals =>
                (/\ pc' = "sleep"
                 /\ next_run' = now + args.scrape_interval
                 /\ exitCode' = -1)))]_vars

C6_Witness ==
    /\ pc = "job_done"
    /\ FetchFailed(last)
    /\ args.store_raw
    /\ args.data_format = "json"
    /\ data = None

\* C7: every successful fetch creates exactly one snapshot file in its cycle
\* when raw storage is enabled (any payload, either format) and none when it
\* is disabled.
C7_OneSnapshotPerSuccess ==
    [][/\ (pc = "get" /\ pc' # "get" /\ FetchOk(last') /\ args.store_raw)
            => pc' = "write_raw_data"
       /\ (pc = "write_raw_data" /\ pc' = "write_to_db")
            => Cardinality(rawFiles') = Cardinality(rawFiles) + 1
       /\ (pc # "write_raw_data") => rawFiles' = rawFiles
       /\ (pc' = "write_raw_data") => args.store_raw]_vars

\* C8: a failure of write_raw_data does not prevent write_to_db for the same
\* payload: unless a signal arrives, the raw step is followed by the store step.
C8_RawFailureKeepsStoreWrite ==
    [][(pc = "write_raw_data" /\ signals' = signals) => (pc' = "write_to_db")]_vars

\* C9: at most one fetch cycle is executing at any time, also when a cycle
\* outlasts the interval.
C9_AtMostOneCycle == running <= 1

C9_Witness ==
    /\ running = 1
    /\ pc = "get"
    /\ attempts > 0
    /\ now >= next_run + args.scrape_interval

\* C10: the store step of a successful cycle appends exactly one record and
\* keeps every earlier record.
C10_AppendsOneRecord ==
    [][(pc = "write_to_db" /\ pc' = "job_done") =>
         (/\ Len(records') = Len(records) + 1
          /\ SubSeq(records', 1, Len(records)) = records)]_vars

C12_ClosedExactlyOnce ==
    [][/\ (exitCode = -1 /\ exitCode' # -1 /\ dbOpen) => (closes' = 1 /\ ~dbOpen')
       /\ (closes' > closes) => (running = 0)
       /\ (dbWrites' > dbWrites) => dbOpen]_vars

\* C13: between two consecutive HTTP attempts of one fetch_data call there is
\* a strictly positive backoff delay, larger than the one before it.
C13_RetriesSpaced ==
    [][(pc = "get" /\ pc' = "get" /\ attempts' = attempts + 1 /\ redirects' = redirects)
         => (backoff' > 0 /\ backoff' > backoff)]_vars

\* C14: missed ticks are not queued: a running cycle began at least one
\* interval after the previous cycle completed, and between cycles the single
\* pending run is one interval after that completion.
C14_NoCatchUp ==
    /\ (running = 1 /\ last_run # -1) => cycle_start >= last_run + args.scrape_interval
    /\ (pc \in {"sleep", "run_pending"} /\ last_run # -1)
          => next_run = last_run + args.scrape_interval

C14_Witness ==
    /\ pc = "sleep"
    /\ running = 0
    /\ last_run = now
    /\ last_run - cycle_start >= 2 * args.scrape_interval
    /\ next_run = now + args.scrape_interval

\* C15: with the poll interval, the request timeout or the retry count below
\* 1 the process ends with a non-zero status before the scheduler starts: no
\* URL check, nothing created on disk, no store opened, no cycle.
C15_InvalidArgsStopStartup ==
    (args.scrape_interval < 1 \/ args.scrape_timeout < 1 \/ args.scrape_max_retries < 1)
      => (/\ pc \in {"validate_args", "exit_startup_error"}
          /\ (pc = "exit_startup_error" => exitCode \notin {-1, 0})
          /\ urlCheck = "none"
          /\ created = {}
          /\ ~dbOpen
          /\ running = 0
          /\ cycle_start = -1)

C15_Witness ==
    /\ pc = "exit_startup_error"
    /\ args.scrape_interval = 0
    /\ args.scrape_timeout >= 1
    /\ args.scrape_max_retries >= 1
    /\ ~args.rebuild_db
    /\ exitCode = 1

\* C16: when the attempts made so far all failed transiently and the next
\* attempt answers 200 with a parsable body, fetch_data returns the payload of
\* that attempt and makes no further attempt.
C16_SuccessAfterTransientFailures ==
    [][(/\ pc = "get"
        /\ transientOnly
        /\ attempts' = attempts + 1
        /\ last'.kind = "response"
        /\ last'.status = 200
        /\ last'.body \in {"{\"alt\": 1}", "{}"})
       => (/\ attempts <= args.scrape_max_retries
           /\ pc' \in {"write_raw_data", "write_to_db", "job_done"}
           /\ data'.kind = "dict"
           /\ data'.len = (IF last'.body = "{}" THEN 0 ELSE 1))]_vars

C16_Witness ==
    /\ pc \in {"write_raw_data", "write_to_db"}
    /\ attempts = args.scrape_max_retries + 1
    /\ redirects = 0
    /\ last.status = 200
    /\ data = Dict(1)

\* C17: when fetch_data returns, the writers run if and only if the returned
\* value is truthy; a 200 whose parsed body is empty ends the cycle like a
\* failed fetch, with no snapshot and no store write.
C17_WritesIffTruthy ==
    [][(pc = "get" /\ pc' # "get" /\ exitCode' = -1)
         => (/\ (pc' \in {"write_raw_data", "write_to_db"})
                   <=> (data'.kind = "dict" /\ data'.len > 0)
             /\ (pc' \notin {"write_raw_data", "write_to_db"})
                   => (pc' = "job_done" /\ rawFiles' = rawFiles /\ dbWrites' = dbWrites))]_vars

C17_Witness ==
    /\ pc = "job_done"
    /\ last.status = 200
    /\ last.body = "{}"
    /\ data = Dict(0)
    /\ args.store_raw

\* C18: unless the startup HEAD request returned 200 the process never gets
\* past check_url: nothing is created on disk, no store is opened, no cycle
\* runs, and a failed check ends the process.
C18_LoopOnlyAfterUrlCheck ==
    (urlCheck # "ok")
      => (/\ pc \in {"validate_args", "check_url", "exit_startup_error"}
          /\ created = {}
          /\ ~dbOpen
          /\ running = 0
          /\ cycle_start = -1
          /\ (urlCheck = "failed" => (pc = "exit_startup_error" /\ exitCode = 1)))

C18_Witness ==
    /\ urlCheck = "failed"
    /\ pc = "exit_startup_error"
    /\ fs.flight_dir = "absent"
    /\ created = {}

\* C19: a cycle starts no sooner than one interval after the job was
\* registered (time 0), after the previous cycle's start, and after the
\* previous cycle's completion.
C19_CycleStartsSpaced ==
    [][(running' > running)
         => (/\ now >= args.scrape_interval
             /\ (cycle_start # -1 => now >= cycle_start + args.scrape_interval)
             /\ (last_run # -1 => now >= last_run + args.scrape_interval))]_vars

C19_Witness ==
    /\ pc = "get"
    /\ attempts = 0
    /\ last_run # -1
    /\ cycle_start = last_run + args.scrape_interval

\* C20: the session opened by a fetch_data call is closed when the call has
\* returned.
C20_SessionClosedOnReturn == Returned => session = "closed"

====
